---------------------------- MODULE Spec2Model ----------------------------
(***************************************************************************)
(* Fare-collection pipeline of thyticket: fetcher.py (fetch_fx_rates,      *)
(* parse_currency, parse_price_usd, fetch_fares, fetch_all) over the       *)
(* SQLite store of database.py (init_db, save_fares, log_fetch).           *)
(*                                                                         *)
(* Numbers.  A float is Num(n) or NaN; rates count 1/10000 USD            *)
(* (RateScale) and USD prices count cents.  Strings that the code takes    *)
(* apart (price strings) are sequences of one-character strings.           *)
(***************************************************************************)
EXTENDS Integers, Sequences, FiniteSets, TLC

VARIABLES
    pc,           \* position of the run: see PcValues
    ri,           \* index into ROUTES of the pair being processed
    hi,           \* index into SEARCH_HORIZONS of the pair being processed
    mi,           \* index into FETCH_MODES of the mode being tried
    records,      \* fetch_fares: the local list `records` of the current mode
    fx_rates,     \* fetch_all: the rate map returned by fetch_fx_rates
    total_saved,  \* fetch_all: running total
    schema,       \* store: the tables that exist
    fares,        \* store: rows of table fares, in insertion order
    fetch_log,    \* store: rows of table fetch_log, in insertion order
    clock,        \* number of fetch_fares calls started (datetime.utcnow)
    storeFailures,\* number of store writes that have failed so far
    fxIn,         \* fetch_fx_rates: the provider behaviour it was run against
    fxOut,        \* fetch_fx_rates: its outcome [raised, rates]
    hist,         \* history of the current fetch_fares call (observation only)
    obs,          \* the last call observed with its arguments (observation only)
    runs          \* scheduler: number of job() calls started

vars == <<pc, ri, hi, mi, records, fx_rates, total_saved, schema, fares,
          fetch_log, clock, storeFailures, fxIn, fxOut, hist, obs, runs>>

---------------------------------------------------------------------------
(* Bounds of the model *)

NRoutes == 1            \* how many of the configured routes a run iterates over
MaxOffers == 2          \* how many raw offers a freely chosen flights list has
MaxStoreFailures == 1   \* how many store writes may fail in one run
MaxStoreRows == 3       \* how many rows a table holds when the store is called directly
MaxRuns == 2            \* how many times the scheduler calls job

---------------------------------------------------------------------------
(* config.py *)

ROUTES ==
    << [origin |-> "IST", destination |-> "NRT"],
       [origin |-> "IST", destination |-> "HND"],
       [origin |-> "IST", destination |-> "ICN"],
       [origin |-> "IST", destination |-> "PVG"] >>

SEARCH_HORIZONS == <<7, 30, 90>>

MAX_RESULTS == 10

Min(a, b) == IF a < b THEN a ELSE b

\* the routes and horizons a run iterates over
Routes == SubSeq(ROUTES, 1, Min(NRoutes, Len(ROUTES)))
Horizons == SEARCH_HORIZONS

---------------------------------------------------------------------------
(* fetcher.py: FX rates *)

\* A Python float: a number, or NaN (which float() and round() pass
\* through and for which every comparison is False).  Rates are numbers of
\* 1/RateScale USD, prices are numbers of cents.
RateScale == 10000
Num(n) == [k |-> "num", v |-> n]
NaN == [k |-> "nan", v |-> 0]

FALLBACK_RATES == [c \in {"TRY", "EUR", "GBP", "USD"} |->
    CASE c = "TRY" -> Num(274)
      [] c = "EUR" -> Num(10800)
      [] c = "GBP" -> Num(12700)
      [] c = "USD" -> Num(RateScale)]

CURRENCIES_NEEDED == <<"TRY", "EUR", "GBP">>

\* What closes[ticker] can be for one ticker: the column is absent
\* (KeyError), or the cell holds a float: NaN (pandas' missing value), a
\* non-positive number, or a live rate.
Missing == [k |-> "missing", v |-> 0]
LiveValue(c) == CASE c = "TRY" -> 281 [] c = "EUR" -> 10910 [] c = "GBP" -> 12650
Closes(c) == {Missing, NaN, Num(0), Num(-1), Num(LiveValue(c))}

\* A provider behaviour: yf.download (or data["Close"].iloc[-1]) raises, or
\* it returns one closes entry per ticker.
NoCloses == [c \in {"TRY", "EUR", "GBP"} |-> Missing]
Unreachable == [down |-> TRUE, closes |-> NoCloses]
ProviderBehaviours ==
    {Unreachable} \cup
    { [down |-> FALSE, closes |-> f] :
        f \in { g \in [{"TRY", "EUR", "GBP"} -> UNION {Closes(c) : c \in {"TRY", "EUR", "GBP"}}] :
                  \A c \in DOMAIN g : g[c] \in Closes(c) } }

\* m.update(d) and m[k] = v of a Python dict
DictUpdate(m, d) == [x \in DOMAIN m \cup DOMAIN d |-> IF x \in DOMAIN d THEN d[x] ELSE m[x]]
DictSet(m, key, val) == [x \in DOMAIN m \cup {key} |-> IF x = key THEN val ELSE m[x]]

\* lines 60-68: the rate one currency gets from its closes entry.
\* float(closes[ticker]) raises on an absent column; NaN <= 0 is False.
RateFor(currency, close) ==
    IF close.k = "missing" THEN FALLBACK_RATES[currency]
    ELSE IF close.k = "nan" THEN NaN
    ELSE IF close.v <= 0 THEN FALLBACK_RATES[currency]
    ELSE close

\* lines 58-68: the loop over CURRENCIES_NEEDED
RECURSIVE FxLoop(_, _, _)
FxLoop(rates, closes, i) ==
    IF i > Len(CURRENCIES_NEEDED) THEN rates
    ELSE FxLoop(DictSet(rates, CURRENCIES_NEEDED[i],
                        RateFor(CURRENCIES_NEEDED[i], closes[CURRENCIES_NEEDED[i]])),
                closes, i + 1)

\* line 49
InitialRatesEmpty == [c \in {} |-> Num(0)]

InitialRates == [c \in {"USD"} |-> Num(RateScale)]

\* lines 70-72: the handler of the outer try
OnProviderErrorKeep(rates) == [raised |-> FALSE, rates |-> rates]

OnProviderError(rates) == [raised |-> FALSE, rates |-> DictUpdate(rates, FALLBACK_RATES)]

\* lines 43-74: the outcome of fetch_fx_rates against one provider behaviour
fetch_fx_rates(provider) ==
    IF provider.down THEN OnProviderError(InitialRates)
    ELSE [raised |-> FALSE, rates |-> FxLoop(InitialRates, provider.closes, 1)]

---------------------------------------------------------------------------
(* fetcher.py: price parsing *)

Digits == {"0", "1", "2", "3", "4", "5", "6", "7", "8", "9"}
Upper == {"A", "B", "C", "D", "E", "F", "G", "H", "I", "J", "K", "L", "M",
          "N", "O", "P", "Q", "R", "S", "T", "U", "V", "W", "X", "Y", "Z"}
Whitespace == {" ", "nbsp"}   \* "nbsp" is the one character U+00A0

DigitVal(ch) ==
    CASE ch = "0" -> 0 [] ch = "1" -> 1 [] ch = "2" -> 2 [] ch = "3" -> 3
      [] ch = "4" -> 4 [] ch = "5" -> 5 [] ch = "6" -> 6 [] ch = "7" -> 7
      [] ch = "8" -> 8 [] ch = "9" -> 9

\* the currency codes that occur in the model's price strings, spelled out
CodeNames == {"TRY", "EUR", "GBP", "USD", "JPY"}
Spell(code) ==
    CASE code = "TRY" -> <<"T", "R", "Y">>
      [] code = "EUR" -> <<"E", "U", "R">>
      [] code = "GBP" -> <<"G", "B", "P">>
      [] code = "USD" -> <<"U", "S", "D">>
      [] code = "JPY" -> <<"J", "P", "Y">>
Str(chars) == CHOOSE code \in CodeNames : Spell(code) = chars

\* str.strip()
RECURSIVE LStrip(_)
LStrip(s) == IF s # <<>> /\ Head(s) \in Whitespace THEN LStrip(Tail(s)) ELSE s
RECURSIVE RStrip(_)
RStrip(s) ==
    IF s # <<>> /\ s[Len(s)] \in Whitespace THEN RStrip(SubSeq(s, 1, Len(s) - 1)) ELSE s
Strip(s) == RStrip(LStrip(s))

\* lines 79-85
parse_currency(price_str) ==
    LET s == Strip(price_str) IN
    IF s # <<>> /\ s[1] = "$" THEN "USD"
    ELSE IF Len(s) >= 3 /\ \A i \in 1..3 : s[i] \in Upper THEN Str(SubSeq(s, 1, 3))
    ELSE "USD"

\* line 95: re.sub(r"[^\d.,]", "", price_str).replace(",", "")
Numeric(price_str) == SelectSeq(SelectSeq(price_str, LAMBDA ch : ch \in Digits \cup {".", ","}),
                                LAMBDA ch : ch # ",")

\* line 96: float(numeric) accepts digits with at most one point and at
\* least one digit, and raises ValueError otherwise
CountOf(s, ch) == Cardinality({i \in DOMAIN s : s[i] = ch})
IsFloat(numeric) ==
    /\ \A i \in DOMAIN numeric : numeric[i] \in Digits \cup {"."}
    /\ CountOf(numeric, ".") <= 1
    /\ \E i \in DOMAIN numeric : numeric[i] \in Digits

RECURSIVE Pow10(_)
Pow10(n) == IF n = 0 THEN 1 ELSE 10 * Pow10(n - 1)

\* the digits of numeric read as one integer, and the number of digits
\* after the point: float(numeric) = Mantissa / 10^FracDigits
RECURSIVE DigitsValue(_)
DigitsValue(s) == IF s = <<>> THEN 0 ELSE 10 * DigitsValue(SubSeq(s, 1, Len(s) - 1)) + DigitVal(s[Len(s)])
Mantissa(numeric) == DigitsValue(SelectSeq(numeric, LAMBDA ch : ch # "."))
FracDigits(numeric) ==
    IF CountOf(numeric, ".") = 0 THEN 0
    ELSE Len(numeric) - (CHOOSE i \in DOMAIN numeric : numeric[i] = ".")

\* round(x, 2) of x = num / den, in cents (ties are rounded up); den is a
\* multiple of 100
TruncCents(num, den) == num \div (den \div 100)

RoundCents(num, den) == (num + (den \div 100) \div 2) \div (den \div 100)

\* line 97: fx_rates.get(currency, 1.0)
RateGet(rates, currency) == IF currency \in DOMAIN rates THEN rates[currency] ELSE Num(RateScale)

\* lines 88-98: [ok |-> FALSE] stands for the ValueError of float()
ParseError == [ok |-> FALSE, usd |-> NaN]
parse_price_usd(price_str, rates) ==
    LET currency == parse_currency(price_str)
        numeric  == Numeric(price_str)
        rate     == RateGet(rates, currency)
    IN  IF ~IsFloat(numeric) THEN ParseError
        ELSE IF rate.k = "nan" THEN [ok |-> TRUE, usd |-> NaN]
        ELSE [ok |-> TRUE,
              usd |-> Num(RoundCents(Mantissa(numeric) * rate.v,
                                     Pow10(FracDigits(numeric)) * RateScale))]

---------------------------------------------------------------------------
(* The external retrieval call get_flights *)

FETCH_MODES == <<"local", "fallback">>

P_TRY == <<"T", "R", "Y", " ", "1", "0", "0">>
P_NA  == <<"N", "/", "A">>

\* a raw offer: has_price is FALSE when getattr(flight, "price", None) is None
Flight(price) == [name |-> "TK", has_price |-> TRUE, price |-> price]
NoPriceFlight == [name |-> "TK", has_price |-> FALSE, price |-> <<>>]
FlightChoices == {Flight(P_TRY), Flight(P_NA), NoPriceFlight}

\* what one get_flights call can do: raise, return None, or return a result
\* whose flights list is empty, has one raw offer, or has an unusable offer
\* followed by a usable one
Raises == [kind |-> "raise", flights |-> <<>>]
NoResult == [kind |-> "none", flights |-> <<>>]
FlightLists ==
    {<<>>} \cup {<<f>> : f \in FlightChoices}
           \cup {<<Flight(P_NA), Flight(P_TRY)>>, <<NoPriceFlight, Flight(P_TRY)>>}
Results == {Raises, NoResult} \cup {[kind |-> "result", flights |-> f] : f \in FlightLists}

---------------------------------------------------------------------------
(* fetcher.py: fetch_fares and fetch_all; database.py *)

Today == 20000   \* datetime.today(), as a day number

Route == Routes[ri]
\* line 199: for days_ahead in SEARCH_HORIZONS
DaysAheadReversed == Horizons[Len(Horizons) + 1 - hi]

DaysAhead == Horizons[hi]
RouteKey == <<Route.origin, Route.destination>>    \* f"{origin}-{destination}"

\* lines 139-161: the record of one raw offer whose price parsed
RecordQuoteCurrency(flight, price_usd) ==
    [fetched_at     |-> clock,
     origin         |-> Route.origin,
     destination    |-> Route.destination,
     departure_date |-> Today + DaysAhead,
     days_ahead     |-> DaysAhead,
     airline        |-> flight.name,
     price_total    |-> price_usd,
     price_base     |-> price_usd,
     currency       |-> parse_currency(flight.price),
     raw_offer      |-> [name |-> flight.name, price_raw |-> flight.price, price_usd |-> price_usd]]

Record(flight, price_usd) ==
    [fetched_at     |-> clock,
     origin         |-> Route.origin,
     destination    |-> Route.destination,
     departure_date |-> Today + DaysAhead,
     days_ahead     |-> DaysAhead,
     airline        |-> flight.name,
     price_total    |-> price_usd,
     price_base     |-> price_usd,
     currency       |-> "USD",
     raw_offer      |-> [name |-> flight.name, price_raw |-> flight.price, price_usd |-> price_usd]]

\* lines 128-161: the loop that builds `records`
RECURSIVE BuildRecordsStopAtError(_)
BuildRecordsStopAtError(flights) ==
    IF flights = <<>> THEN <<>>
    ELSE LET flight == Head(flights)
             parsed == parse_price_usd(flight.price, fx_rates)
         IN  IF ~flight.has_price THEN BuildRecordsStopAtError(Tail(flights))
             ELSE IF ~parsed.ok THEN <<>>
             ELSE <<Record(flight, parsed.usd)>> \o BuildRecordsStopAtError(Tail(flights))

RECURSIVE BuildRecordsReversed(_)
BuildRecordsReversed(flights) ==
    IF flights = <<>> THEN <<>>
    ELSE LET flight == Head(flights)
             parsed == parse_price_usd(flight.price, fx_rates)
         IN  IF ~flight.has_price THEN BuildRecordsReversed(Tail(flights))
             ELSE IF ~parsed.ok THEN BuildRecordsReversed(Tail(flights))
             ELSE BuildRecordsReversed(Tail(flights)) \o <<Record(flight, parsed.usd)>>

RECURSIVE BuildRecords(_)
BuildRecords(flights) ==
    IF flights = <<>> THEN <<>>
    ELSE LET flight == Head(flights)
             parsed == parse_price_usd(flight.price, fx_rates)
         IN  IF ~flight.has_price THEN BuildRecords(Tail(flights))
             ELSE IF ~parsed.ok THEN BuildRecords(Tail(flights))
             ELSE <<Record(flight, parsed.usd)>> \o BuildRecords(Tail(flights))

\* line 129: result.flights[:MAX_RESULTS]
Uncapped(flights) == flights

Capped(flights) == SubSeq(flights, 1, Min(Len(flights), MAX_RESULTS))

\* line 108: `continue` goes to the next mode, or leaves the loop for line 176
NextMode(m) ==
    IF m < Len(FETCH_MODES) THEN [pc |-> "call", mi |-> m + 1]
    ELSE [pc |-> "exhausted", mi |-> m]

\* lines 172-174: the handler of an exception raised by get_flights
AfterRetrievalErrorPropagates(m) == [pc |-> "aborted", mi |-> m]

AfterRetrievalError(m) == NextMode(m)

\* lines 124-126
AfterNoFlights(m) == NextMode(m)

\* lines 163-165
AfterNoRecordsReturns(m) == [pc |-> "sleep", mi |-> m]

AfterNoRecordsBreaks(m) == [pc |-> "exhausted", mi |-> m]

AfterNoRecords(m) == NextMode(m)

\* lines 172-174: the same handler, reached from save_fares or log_fetch
\* raising inside the try (lines 167-168)
AfterStoreErrorInTry(m) == NextMode(m)

\* line 176 is outside every try: log_fetch raising leaves fetch_fares and
\* fetch_all
AfterStoreErrorAtEndSwallowed(m) == [pc |-> "sleep", mi |-> m]

AfterStoreErrorAtEnd(m) == [pc |-> "aborted", mi |-> m]

\* a store write may fail (sqlite3.Error), MaxStoreFailures times per run
MayFail == storeFailures < MaxStoreFailures

LogRow(status, n_records, message) ==
    [route |-> RouteKey, days_ahead |-> DaysAhead, status |-> status,
     n_records |-> n_records, message |-> message]

NoObs == [op |-> "none", arg |-> <<>>, out |-> <<>>, raised |-> FALSE]

NoHist == [calls |-> <<>>, produced |-> <<>>, outcomes |-> <<>>, fares_before |-> 0, log_before |-> 0]

Init ==
    /\ pc = "init_db"
    /\ ri = 1 /\ hi = 1 /\ mi = 1
    /\ records = <<>>
    /\ fx_rates = InitialRates
    /\ total_saved = 0
    /\ schema = {}
    /\ fares = <<>>
    /\ fetch_log = <<>>
    /\ clock = 0
    /\ storeFailures = 0
    /\ fxIn = Unreachable
    /\ fxOut = [raised |-> FALSE, rates |-> InitialRates]
    /\ hist = NoHist
    /\ obs = NoObs
    /\ runs = 1

\* database.py lines 13-30 and 31-41: CREATE TABLE IF NOT EXISTS
CreateTable(tables, name) ==
    IF name \in tables THEN [raised |-> TRUE, tables |-> tables]
    ELSE [raised |-> FALSE, tables |-> tables \cup {name}]

CreateTableIfNotExists(tables, name) == [raised |-> FALSE, tables |-> tables \cup {name}]

\* database.py lines 12-43: the tables after init_db, or the error of the
\* first statement that fails
init_db(tables) ==
    LET first == CreateTableIfNotExists(tables, "fares") IN
    IF first.raised THEN first ELSE CreateTableIfNotExists(first.tables, "fetch_log")

\* database.py lines 12-43, called at fetcher.py line 184
InitDb ==
    /\ pc = "init_db"
    /\ \/ /\ schema' = init_db(schema).tables
          /\ pc' = "fx"
          /\ UNCHANGED storeFailures
       \/ /\ MayFail
          /\ storeFailures' = storeFailures + 1
          /\ pc' = "aborted"
          /\ UNCHANGED schema
    /\ UNCHANGED <<ri, hi, mi, records, fx_rates, total_saved, fares, fetch_log,
                   clock, fxIn, fxOut, hist, obs>>
    /\ UNCHANGED runs

\* the provider behaviours a run of the pipeline is checked against
RunProviders ==
    {Unreachable,
     [down |-> FALSE, closes |-> [c \in {"TRY", "EUR", "GBP"} |-> IF c = "TRY" THEN NaN ELSE Num(LiveValue(c))]]}

\* fetcher.py line 189
GetRates ==
    /\ pc = "fx"
    /\ \E provider \in RunProviders :
         LET out == fetch_fx_rates(provider) IN
         /\ fxIn' = provider
         /\ fxOut' = out
         /\ fx_rates' = out.rates
         /\ pc' = IF out.raised THEN "aborted" ELSE "loop"
    /\ UNCHANGED <<ri, hi, mi, records, total_saved, schema, fares, fetch_log,
                   clock, storeFailures, hist, obs>>
    /\ UNCHANGED runs

\* fetcher.py lines 194-202: the loops pick the next pair and call fetch_fares
\* (lines 105-108)
StartPairRefetching ==
    /\ pc = "loop"
    /\ ri <= Len(Routes)
    /\ pc' = "call"
    /\ mi' = 1
    /\ \E provider \in RunProviders : fx_rates' = fetch_fx_rates(provider).rates
    /\ records' = <<>>
    /\ clock' = clock + 1
    /\ hist' = [NoHist EXCEPT !.fares_before = Len(fares), !.log_before = Len(fetch_log)]
    /\ UNCHANGED <<ri, hi, total_saved, schema, fares, fetch_log,
                   storeFailures, fxIn, fxOut, obs>>
    /\ UNCHANGED runs

StartPair ==
    /\ pc = "loop"
    /\ ri <= Len(Routes)
    /\ pc' = "call"
    /\ mi' = 1
    /\ records' = <<>>
    /\ clock' = clock + 1
    /\ hist' = [NoHist EXCEPT !.fares_before = Len(fares), !.log_before = Len(fetch_log)]
    /\ UNCHANGED <<ri, hi, fx_rates, total_saved, schema, fares, fetch_log,
                   storeFailures, fxIn, fxOut, obs>>
    /\ UNCHANGED runs

\* fetcher.py lines 109-165: one mode's get_flights call answering res, and
\* the records built from its result
ModeStep(res) ==
    LET recs == IF res.kind = "result" THEN BuildRecords(Capped(res.flights)) ELSE <<>>
        next == IF res.kind = "raise" THEN AfterRetrievalError(mi)
                ELSE IF res.kind = "none" \/ res.flights = <<>> THEN AfterNoFlights(mi)
                ELSE IF recs = <<>> THEN AfterNoRecords(mi)
                ELSE [pc |-> "save", mi |-> mi]
    IN  /\ pc' = next.pc
        /\ mi' = next.mi
        /\ records' = recs
        /\ hist' = [hist EXCEPT
                      !.calls = Append(@, FETCH_MODES[mi]),
                      !.outcomes = Append(@, IF res.kind = "raise" THEN "raise"
                                             ELSE IF res.kind = "none" \/ res.flights = <<>> THEN "empty"
                                             ELSE IF recs = <<>> THEN "unparseable"
                                             ELSE "offers"),
                      !.produced = IF recs # <<>> THEN Append(@, FETCH_MODES[mi]) ELSE @]
        /\ UNCHANGED <<ri, hi, fx_rates, total_saved, schema, fares, fetch_log,
                       clock, storeFailures, fxIn, fxOut, runs>>

CallMode ==
    /\ pc = "call"
    /\ \E res \in Results : ModeStep(res)
    /\ UNCHANGED obs

\* database.py lines 46-59: one executemany and one commit
save_faresReplacing(rows) == IF rows = <<>> THEN fares ELSE rows

save_fares(rows) == IF rows = <<>> THEN fares ELSE fares \o rows

\* fetcher.py line 167
SaveFares ==
    /\ pc = "save"
    /\ \/ /\ fares' = save_fares(records)
          /\ pc' = "log"
          /\ UNCHANGED <<mi, storeFailures>>
       \/ /\ MayFail
          /\ storeFailures' = storeFailures + 1
          /\ pc' = AfterStoreErrorInTry(mi).pc
          /\ mi' = AfterStoreErrorInTry(mi).mi
          /\ UNCHANGED fares
    /\ UNCHANGED <<ri, hi, records, fx_rates, total_saved, schema, fetch_log,
                   clock, fxIn, fxOut, hist, obs>>
    /\ UNCHANGED runs

\* database.py lines 62-68
log_fetch(status, n_records, message) == Append(fetch_log, LogRow(status, n_records, message))

\* fetcher.py lines 168-170, and line 203 on return
LogSuccess ==
    /\ pc = "log"
    /\ \/ /\ fetch_log' = log_fetch("success", Len(records), <<"mode=", FETCH_MODES[mi]>>)
          /\ total_saved' = total_saved + Len(records)
          /\ pc' = "sleep"
          /\ UNCHANGED <<mi, storeFailures>>
       \/ /\ MayFail
          /\ storeFailures' = storeFailures + 1
          /\ pc' = AfterStoreErrorInTry(mi).pc
          /\ mi' = AfterStoreErrorInTry(mi).mi
          /\ UNCHANGED <<fetch_log, total_saved>>
    /\ UNCHANGED <<ri, hi, records, fx_rates, schema, fares, clock, fxIn, fxOut, hist, obs>>
    /\ UNCHANGED runs

\* fetcher.py lines 176-178, and line 203 on return
LogError ==
    /\ pc = "exhausted"
    /\ \/ /\ fetch_log' = log_fetch("error", 0, <<"All modes failed">>)
          /\ total_saved' = total_saved + 0
          /\ pc' = "sleep"
          /\ UNCHANGED <<mi, storeFailures>>
       \/ /\ MayFail
          /\ storeFailures' = storeFailures + 1
          /\ pc' = AfterStoreErrorAtEnd(mi).pc
          /\ mi' = AfterStoreErrorAtEnd(mi).mi
          /\ UNCHANGED <<fetch_log, total_saved>>
    /\ UNCHANGED <<ri, hi, records, fx_rates, schema, fares, clock, fxIn, fxOut, hist, obs>>
    /\ UNCHANGED runs

\* fetcher.py line 204, then the loop heads of lines 199 and 194
Sleep ==
    /\ pc = "sleep"
    /\ pc' = "loop"
    /\ IF hi < Len(Horizons) THEN hi' = hi + 1 /\ ri' = ri
       ELSE hi' = 1 /\ ri' = ri + 1
    /\ mi' = 1
    /\ records' = <<>>
    /\ hist' = NoHist
    /\ UNCHANGED <<fx_rates, total_saved, schema, fares, fetch_log,
                   clock, storeFailures, fxIn, fxOut, obs>>
    /\ UNCHANGED runs

\* fetcher.py line 206: the loops are over
Finish ==
    /\ pc = "loop"
    /\ ri > Len(Routes)
    /\ pc' = "done"
    /\ UNCHANGED <<ri, hi, mi, records, fx_rates, total_saved, schema, fares,
                   fetch_log, clock, storeFailures, fxIn, fxOut, hist, obs>>
    /\ UNCHANGED runs

Next ==
    \/ InitDb
    \/ GetRates
    \/ StartPair
    \/ CallMode
    \/ SaveFares
    \/ LogSuccess
    \/ LogError
    \/ Sleep
    \/ Finish

Spec == Init /\ [][Next]_vars

---------------------------------------------------------------------------
(* fetch_fx_rates on its own, against every provider behaviour *)

InitFx ==
    /\ Init

RunFetchFxRates ==
    /\ pc = "init_db"
    /\ \E provider \in ProviderBehaviours :
         /\ fxIn' = provider
         /\ fxOut' = fetch_fx_rates(provider)
    /\ pc' = "fx_done"
    /\ UNCHANGED <<ri, hi, mi, records, fx_rates, total_saved, schema, fares,
                   fetch_log, clock, storeFailures, hist, obs>>
    /\ UNCHANGED runs

NextFx == RunFetchFxRates

SpecFx == InitFx /\ [][NextFx]_vars

---------------------------------------------------------------------------
(* The run up to the end of its first pair, against a wider choice of
   get_flights results: every flights list of up to MaxOffers raw offers,
   and lists longer than MAX_RESULTS *)

P_USD  == <<"$", "5">>
P_DOTS == <<"$", "1", ".", "2", ".", "3">>

\* a raw offer that stands after position MAX_RESULTS of its list
LateFlight(price) == [name |-> "LATE", has_price |-> TRUE, price |-> price]

PairChoices == {Flight(P_TRY), Flight(P_USD), Flight(P_NA), NoPriceFlight}
SeqsUpTo(S, n) == UNION {[1..k -> S] : k \in 0..n}
Repeat(f, n) == [i \in 1..n |-> f]
LongLists ==
    { Repeat(Flight(P_NA), MAX_RESULTS) \o <<LateFlight(P_TRY)>>,
      Repeat(Flight(P_TRY), MAX_RESULTS) \o <<LateFlight(P_USD)>>,
      Repeat(NoPriceFlight, MAX_RESULTS - 1) \o <<Flight(P_USD), LateFlight(P_TRY)>> }
PairFlightLists ==
    SeqsUpTo(PairChoices, MaxOffers) \cup LongLists \cup {<<Flight(P_DOTS), Flight(P_USD)>>}
PairResults == {Raises, NoResult} \cup {[kind |-> "result", flights |-> f] : f \in PairFlightLists}

CallModePair ==
    /\ pc = "call"
    /\ \E res \in PairResults :
         /\ ModeStep(res)
         /\ obs' = [op |-> "get_flights", arg |-> res.flights, out |-> <<>>,
                    raised |-> res.kind = "raise"]

NextPair ==
    \/ InitDb
    \/ GetRates
    \/ StartPair
    \/ CallModePair
    \/ SaveFares
    \/ LogSuccess
    \/ LogError

SpecPair == Init /\ [][NextPair]_vars

---------------------------------------------------------------------------
(* database.py called directly: init_db, save_fares and log_fetch in any
   order on a store of up to MaxStoreRows rows per table *)

\* database.py line 49: leaving `with conn` by an exception rolls back the
\* rows executemany has inserted so far
RollbackKeepsInserted(before, inserted) == before \o inserted

Rollback(before, inserted) == before

\* database.py lines 46-59: what a call of save_fares can do to the fares
\* table.  failed_at = k > 0: the k-th statement (the insert of row k, or
\* the commit for k = Len(rows) + 1) raises.
SaveFaresOutcomesNoGuard(rows) ==
    { [raised |-> FALSE, failed_at |-> 0, fares |-> fares \o rows] }
    \cup (IF MayFail
          THEN { [raised |-> TRUE, failed_at |-> k,
                  fares |-> Rollback(fares, SubSeq(rows, 1, k - 1))] : k \in 1..(Len(rows) + 1) }
          ELSE {})

SaveFaresOutcomes(rows) ==
    { [raised |-> FALSE, failed_at |-> 0, fares |-> save_fares(rows)] }
    \cup (IF rows # <<>> /\ MayFail
          THEN { [raised |-> TRUE, failed_at |-> k,
                  fares |-> Rollback(fares, SubSeq(rows, 1, k - 1))] : k \in 1..(Len(rows) + 1) }
          ELSE {})

StoreRows == { Record(Flight(P_TRY), Num(274)), Record(Flight(P_USD), Num(500)) }
Batches == SeqsUpTo(StoreRows, MaxOffers)
Before == [schema |-> schema, fares |-> fares, fetch_log |-> fetch_log]

CallInitDb ==
    /\ pc \in {"init_db", "store"}
    /\ pc' = "store"
    /\ \/ LET out == init_db(schema) IN
          /\ schema' = out.tables
          /\ obs' = [op |-> "init_db", arg |-> Before,
                     out |-> IF out.raised THEN "exists" ELSE "none", raised |-> out.raised]
          /\ UNCHANGED storeFailures
       \/ /\ MayFail
          /\ storeFailures' = storeFailures + 1
          /\ obs' = [op |-> "init_db", arg |-> Before, out |-> "store", raised |-> TRUE]
          /\ UNCHANGED schema
    /\ UNCHANGED <<ri, hi, mi, records, fx_rates, total_saved, fares, fetch_log,
                   clock, fxIn, fxOut, hist>>
    /\ UNCHANGED runs

CallSaveFares ==
    /\ pc = "store"
    /\ "fares" \in schema
    /\ \E rows \in Batches :
         /\ Len(fares) + Len(rows) <= MaxStoreRows
         /\ \E out \in SaveFaresOutcomes(rows) :
              /\ fares' = out.fares
              /\ storeFailures' = IF out.raised THEN storeFailures + 1 ELSE storeFailures
              /\ obs' = [op |-> "save_fares", arg |-> [rows |-> rows, fares |-> fares, fetch_log |-> fetch_log],
                         out |-> out.failed_at, raised |-> out.raised]
    /\ UNCHANGED <<pc, ri, hi, mi, records, fx_rates, total_saved, schema, fetch_log,
                   clock, fxIn, fxOut, hist>>
    /\ UNCHANGED runs

CallLogFetch ==
    /\ pc = "store"
    /\ "fetch_log" \in schema
    /\ Len(fetch_log) < MaxStoreRows
    /\ \/ /\ \E status \in {"success", "error"} :
                fetch_log' = log_fetch(status, 0, <<>>)
          /\ obs' = [op |-> "log_fetch", arg |-> Before, out |-> 0, raised |-> FALSE]
          /\ UNCHANGED storeFailures
       \/ /\ MayFail
          /\ storeFailures' = storeFailures + 1
          /\ obs' = [op |-> "log_fetch", arg |-> Before, out |-> 1, raised |-> TRUE]
          /\ UNCHANGED fetch_log
    /\ UNCHANGED <<pc, ri, hi, mi, records, fx_rates, total_saved, schema, fares,
                   clock, fxIn, fxOut, hist>>
    /\ UNCHANGED runs

NextStore ==
    \/ CallInitDb
    \/ CallSaveFares
    \/ CallLogFetch

SpecStore == Init /\ [][NextStore]_vars

---------------------------------------------------------------------------
(* A run of fetch_all while the store is available: no store write fails.
   The program is sequential and every external call returns or raises, so
   a step that is possible is eventually taken. *)

NextAvailable == Next /\ UNCHANGED storeFailures

SpecAvailable == Init /\ [][NextAvailable]_vars /\ WF_vars(NextAvailable)

---------------------------------------------------------------------------
(* Every operation of the core: a run of fetch_all, or database.py called
   directly *)

NextCore ==
    \/ Next
    \/ NextStore

SpecCore == Init /\ [][NextCore]_vars

---------------------------------------------------------------------------
(* scheduler.py: job is called once at start and then whenever it is due;
   each call runs fetch_all on the store the earlier runs left.  Retrieval
   here returns nothing or raises, so every pair ends at line 176. *)

\* scheduler.py lines 14-17: where control is after fetch_all has returned
\* (outcome "done") or raised (outcome "aborted")
jobPropagates(outcome) == IF outcome = "aborted" THEN "crashed" ELSE "scheduled"

job(outcome) == "scheduled"

SchedResults == {Raises, NoResult}

CallModeSched ==
    /\ pc = "call"
    /\ \E res \in SchedResults : ModeStep(res)
    /\ UNCHANGED obs

\* scheduler.py lines 14-17: fetch_all has ended and job returns or raises
JobReturns ==
    /\ pc \in {"done", "aborted"}
    /\ pc' = job(pc)
    /\ obs' = [op |-> "job", arg |-> pc, out |-> total_saved, raised |-> job(pc) = "crashed"]
    /\ UNCHANGED <<ri, hi, mi, records, fx_rates, total_saved, schema, fares, fetch_log,
                   clock, storeFailures, fxIn, fxOut, hist, runs>>

\* scheduler.py lines 25-27 and 10-15: the loop finds job due and calls
\* it; fetch_all starts afresh on the store as it is
RunPending ==
    /\ pc = "scheduled"
    /\ runs < MaxRuns
    /\ runs' = runs + 1
    /\ pc' = "init_db"
    /\ ri' = 1 /\ hi' = 1 /\ mi' = 1
    /\ records' = <<>>
    /\ fx_rates' = InitialRates
    /\ total_saved' = 0
    /\ fxIn' = Unreachable
    /\ fxOut' = [raised |-> FALSE, rates |-> InitialRates]
    /\ hist' = NoHist
    /\ UNCHANGED <<schema, fares, fetch_log, clock, storeFailures, obs>>

NextSched ==
    \/ InitDb
    \/ GetRates
    \/ StartPair
    \/ CallModeSched
    \/ LogError
    \/ Sleep
    \/ Finish
    \/ JobReturns
    \/ RunPending

SpecSched == Init /\ [][NextSched]_vars

---------------------------------------------------------------------------
(* parse_currency and parse_price_usd on their own, on price strings written
   from a currency prefix, a separator and an amount *)

\* an amount as it is written, and the number it stands for: num / 10^frac
Amounts ==
    { [text |-> <<"5">>, num |-> 5, frac |-> 0],
      [text |-> <<"5", "0", "0">>, num |-> 500, frac |-> 0],
      [text |-> <<"1", ",", "2", "5", "0">>, num |-> 1250, frac |-> 0],
      [text |-> <<"3", "2", ",", "3", "5", "1">>, num |-> 32351, frac |-> 0],
      [text |-> <<"1", "2", ".", "5", "0">>, num |-> 1250, frac |-> 2],
      [text |-> <<"1", ",", "2", "3", "4", ".", "5">>, num |-> 12345, frac |-> 1] }

\* the prefix of a price string and the currency it announces: "$", a
\* three-letter code, or nothing
Prefixes ==
    { [text |-> <<"$">>, code |-> "USD"], [text |-> <<>>, code |-> "USD"] }
    \cup { [text |-> Spell(c), code |-> c] : c \in CodeNames }

Separators == { <<>>, <<" ">>, <<"nbsp">> }

\* the rate maps fetch_fx_rates can return, and one that knows only USD
RateMaps == { fetch_fx_rates(p).rates : p \in ProviderBehaviours } \cup { InitialRates }

InitParse == Init

\* one call of parse_currency and of parse_price_usd on the same string
ParsePrice ==
    /\ pc = "init_db"
    /\ \E pre \in Prefixes, sep \in Separators, amt \in Amounts, rates \in RateMaps :
         LET price == pre.text \o sep \o amt.text IN
         obs' = [op |-> "parse_price",
                 arg |-> [price |-> price, rates |-> rates, code |-> pre.code,
                          num |-> amt.num, frac |-> amt.frac],
                 out |-> [currency |-> parse_currency(price),
                          parsed |-> parse_price_usd(price, rates)],
                 raised |-> ~parse_price_usd(price, rates).ok]
    /\ pc' = "parsed"
    /\ UNCHANGED <<ri, hi, mi, records, fx_rates, total_saved, schema, fares,
                   fetch_log, clock, storeFailures, fxIn, fxOut, hist>>
    /\ UNCHANGED runs

NextParse == ParsePrice

SpecParse == InitParse /\ [][NextParse]_vars

---------------------------------------------------------------------------
(* Properties *)

LastLog == fetch_log[Len(fetch_log)]
InFetchFares == pc \in {"call", "save", "log", "exhausted"}
PairsDone == (ri - 1) * Len(Horizons) + (hi - 1)
NPairs == Len(Routes) * Len(Horizons)
\* fetch_fares has returned to fetch_all and written this pair's record
LoggedError == pc = "sleep" /\ Len(fetch_log) > hist.log_before /\ LastLog.status = "error"
LoggedSuccess == pc = "sleep" /\ Len(fetch_log) > hist.log_before /\ LastLog.status = "success"

\* C1: every pair that fetch_fares returns from has exactly one fetch_log
\* record, written for that pair with status success or error; no record is
\* written while the call is still running; a completed run has written
\* exactly |routes| x |horizons| records.
C1_OneLogRecordPerPair ==
    /\ InFetchFares => Len(fetch_log) = hist.log_before /\ Len(fetch_log) = PairsDone
    /\ pc = "sleep" =>
         /\ Len(fetch_log) = hist.log_before + 1
         /\ Len(fetch_log) = PairsDone + 1
         /\ LastLog.route = RouteKey
         /\ LastLog.days_ahead = DaysAhead
         /\ LastLog.status \in {"success", "error"}
    /\ pc = "loop" => Len(fetch_log) = PairsDone
    /\ pc = "done" => Len(fetch_log) = NPairs

C1_Witness ==
    /\ pc = "done"
    /\ Len(fetch_log) = NPairs
    /\ \E i, j \in DOMAIN fetch_log : fetch_log[i].status = "success" /\ fetch_log[j].status = "error"

\* C2: when the first mode raises, returns nothing, or returns only offers
\* whose prices do not parse, the next thing fetch_fares does is call the
\* second mode; no failure outcome (line 176 reached, error record written,
\* or the call left by an error) comes before the fallback call.
C2_FallbackBeforeFailure ==
    /\ (Len(hist.calls) = 1 /\ hist.outcomes[1] # "offers") => (pc = "call" /\ mi = 2)
    /\ (pc = "exhausted" \/ LoggedError \/ (pc = "aborted" /\ hist.calls # <<>>))
          => hist.calls = <<"local", "fallback">>

C2_Witness ==
    /\ LoggedError
    /\ hist.outcomes[1] = "unparseable"
    /\ hist.calls = <<"local", "fallback">>

\* C3 (as claimed): once a mode has yielded at least one Offer Record, no
\* later mode is called for the pair, and the call ends in a success record
\* whose message names that mode.
C3_StopsAtFirstOffers ==
    hist.produced # <<>> =>
        /\ hist.calls[Len(hist.calls)] = hist.produced[1]
        /\ pc \in {"save", "log", "sleep"}
        /\ pc = "sleep" => (LoggedSuccess /\ LastLog.message = <<"mode=", hist.produced[1]>>)

\* C4 (as claimed): when every mode is exhausted and none produced an Offer
\* Record, fetch_fares writes one error record with count 0 and a reason
\* and returns 0 without raising.
C4_ExhaustionReturnsZero ==
    [][(pc = "exhausted" /\ hist.produced = <<>>) =>
          /\ pc' = "sleep"
          /\ fetch_log' = Append(fetch_log, LogRow("error", 0, <<"All modes failed">>))
          /\ total_saved' = total_saved]_vars

\* C4 (amended): when every mode is exhausted and none produced an Offer
\* Record, fetch_fares calls log_fetch for one error record with count 0
\* and a reason.  If the write succeeds it returns 0 and the driver goes on
\* to the next pair (or finishes after the last one); if the write fails
\* the error leaves fetch_fares and the run is aborted with nothing written.
C4_ExhaustionLogsOrAborts ==
    [][/\ (pc = "exhausted" /\ hist.produced = <<>>) =>
            \/ /\ pc' = "sleep"
               /\ fetch_log' = Append(fetch_log, LogRow("error", 0, <<"All modes failed">>))
               /\ total_saved' = total_saved
               /\ fares' = fares
               /\ storeFailures' = storeFailures
            \/ /\ pc' = "aborted"
               /\ storeFailures' = storeFailures + 1
               /\ fetch_log' = fetch_log
               /\ fares' = fares
       /\ LoggedError => (pc' = "loop" /\ PairsDone' = PairsDone + 1)
       /\ (pc = "loop" /\ PairsDone < NPairs) => (pc' = "call" /\ mi' = 1 /\ hist'.calls = <<>>)
      ]_vars

C4_Witness ==
    /\ pc = "call"
    /\ clock >= 2
    /\ fetch_log[1].status = "error"
    /\ fetch_log[1].n_records = 0
    /\ Len(fares) = 0

\* C5 (as claimed): an iteration that ends with an error record has appended
\* nothing to the fares table.
C5_ErrorLeavesFaresUnchanged ==
    LoggedError => Len(fares) = hist.fares_before

\* C6 (as claimed): a failed store write aborts the run: no further mode and
\* no further pair is attempted.
C6_StoreFailureAborts ==
    [][storeFailures' > storeFailures => pc' = "aborted"]_vars

\* C7: an error raised by get_flights never leaves fetch_fares: the step in
\* which a mode raises goes to the next mode, or to line 176 after the last
\* mode, and a run is only ever aborted by a failed store write.
C7_RetrievalErrorsContained ==
    [][/\ (pc = "call" /\ Len(hist'.outcomes) > Len(hist.outcomes)
              /\ hist'.outcomes[Len(hist'.outcomes)] = "raise") =>
            /\ pc' # "aborted"
            /\ IF mi < Len(FETCH_MODES) THEN pc' = "call" /\ mi' = mi + 1
               ELSE pc' = "exhausted"
       /\ (pc # "aborted" /\ pc' = "aborted") => storeFailures' = storeFailures + 1
      ]_vars

C7_Witness ==
    /\ pc = "sleep"
    /\ hist.outcomes = <<"raise", "raise">>
    /\ LoggedError
    /\ storeFailures = 0

FxReturned == pc = "fx_done"
AllCodes == {"USD", "TRY", "EUR", "GBP"}

\* C8: the map fetch_fx_rates returns maps USD to exactly 1.0, whatever the
\* provider does.
C8_UsdIsOne ==
    FxReturned => ("USD" \in DOMAIN fxOut.rates /\ fxOut.rates["USD"] = Num(RateScale))

C8_Witness ==
    /\ FxReturned
    /\ ~fxIn.down
    /\ fxIn.closes["TRY"] = Missing
    /\ fxIn.closes["EUR"] = Num(LiveValue("EUR"))
    /\ fxOut.rates["USD"] = Num(RateScale)

\* C9 (as claimed): a currency whose live lookup fails (absent, NaN or
\* non-positive value) gets its fallback constant, every other currency
\* keeps its live value, and no missing or non-positive value is returned.
LiveFails(close) == close.k \in {"missing", "nan"} \/ close.v <= 0
C9_PartialDegradation ==
    (FxReturned /\ ~fxIn.down) =>
        \A c \in {"TRY", "EUR", "GBP"} :
            /\ fxOut.rates[c] = IF LiveFails(fxIn.closes[c]) THEN FALLBACK_RATES[c] ELSE fxIn.closes[c]
            /\ fxOut.rates[c].k = "num"
            /\ fxOut.rates[c].v > 0

\* C10: fetch_fx_rates never raises; against an unreachable provider it
\* returns exactly the fallback constants; in every case the map has an
\* entry for USD, TRY, EUR and GBP.
C10_NeverRaisesAndComplete ==
    FxReturned =>
        /\ ~fxOut.raised
        /\ AllCodes \subseteq DOMAIN fxOut.rates
        /\ fxIn.down => fxOut.rates = FALLBACK_RATES

C10_Witness ==
    /\ FxReturned
    /\ fxIn.down
    /\ fxOut.rates = FALLBACK_RATES

Parsed == pc = "parsed"
\* the rate the claim prescribes: rate_map[code], or 1.0 when absent
ClaimedRate == IF obs.arg.code \in DOMAIN obs.arg.rates THEN obs.arg.rates[obs.arg.code]
               ELSE Num(RateScale)
\* cents is amount x rate rounded to 2 decimals: within half a cent of it
IsRounded(cents, num, frac, rate) ==
    LET exact == num * rate          \* amount x rate, in 1 / (10^frac * RateScale)
        unit  == Pow10(frac) * (RateScale \div 100)   \* one cent in that unit
    IN  /\ 2 * (cents * unit - exact) <= unit
        /\ 2 * (exact - cents * unit) <= unit

\* C11: for a price string '<code><amount>', '$<amount>' or a bare amount,
\* the normalizer returns the code the prefix announces (USD for '$' and
\* for no code) and does not fail, and the USD amount is the written
\* amount times rate_map[code] (1.0 when the code is absent) rounded to 2
\* decimals; a NaN rate gives a NaN amount.
C11_ParsePrice ==
    Parsed =>
        /\ obs.out.currency = obs.arg.code
        /\ obs.out.parsed.ok
        /\ IF ClaimedRate.k = "nan" THEN obs.out.parsed.usd = NaN
           ELSE /\ obs.out.parsed.usd.k = "num"
                /\ IsRounded(obs.out.parsed.usd.v, obs.arg.num, obs.arg.frac, ClaimedRate.v)

C11_Witness ==
    /\ Parsed
    /\ obs.arg.price = <<"T", "R", "Y", " ", "3", "2", ",", "3", "5", "1">>
    /\ "TRY" \in DOMAIN obs.arg.rates
    /\ obs.arg.rates["TRY"] = Num(274)
    /\ obs.out.currency = "TRY"
    /\ obs.out.parsed.usd = Num(88642)

\* the raw offers of the last get_flights call that fetch_fares looks at
Called == obs.op = "get_flights"
Considered == SubSeq(obs.arg, 1, Min(Len(obs.arg), MAX_RESULTS))
\* the price strings of the model that are not valid decimals once stripped
NotDecimal == {P_NA, P_DOTS}
Usable(flight) == flight.has_price /\ flight.price \notin NotDecimal
\* record rec was built from raw offer flight
BuiltFrom(rec, flight) ==
    /\ flight.has_price
    /\ rec.airline = flight.name
    /\ rec.raw_offer.price_raw = flight.price
\* the rows the current fetch_fares call has appended to fares
RowsOfCall == SubSeq(fares, hist.fares_before + 1, Len(fares))

\* C12: parse_price_usd fails on a price that is not a valid decimal once
\* stripped, and fetch_fares drops exactly the offers without a usable
\* price: every considered offer with a valid price becomes one record,
\* whatever else is in the batch.
C12_UnparseableOffersDroppedAlone ==
    /\ \A price \in NotDecimal : ~parse_price_usd(price, fx_rates).ok
    /\ Called =>
         /\ Len(records) = Cardinality({i \in DOMAIN Considered : Usable(Considered[i])})
         /\ \A i \in DOMAIN Considered :
                Usable(Considered[i]) => \E j \in DOMAIN records : BuiltFrom(records[j], Considered[i])
         /\ \A j \in DOMAIN records : records[j].raw_offer.price_raw \notin NotDecimal

C12_Witness ==
    /\ Called
    /\ obs.arg = <<Flight(P_NA), Flight(P_USD)>>
    /\ Len(records) = 1
    /\ records[1].price_total = Num(500)
    /\ LoggedSuccess
    /\ RowsOfCall = records

\* C13: save_fares called with an empty sequence changes neither table and
\* raises nothing, whether or not the store can be written.
C13_SaveFaresEmptyIsNoOp ==
    (obs.op = "save_fares" /\ obs.arg.rows = <<>>) =>
        /\ ~obs.raised
        /\ fares = obs.arg.fares
        /\ fetch_log = obs.arg.fetch_log

C13_Witness ==
    /\ obs.op = "save_fares"
    /\ obs.arg.rows = <<>>
    /\ ~obs.raised
    /\ Len(fares) > 0
    /\ Len(fetch_log) > 0
    /\ storeFailures < MaxStoreFailures

\* C14: save_fares called with a non-empty sequence either raises nothing
\* and has appended all its rows, in input order, after the rows that were
\* there, or raises and leaves the table as it was, wherever the failure
\* struck; rows equal to rows already stored are appended like any other.
C14_SaveFaresAtomic ==
    (obs.op = "save_fares" /\ obs.arg.rows # <<>>) =>
        /\ fetch_log = obs.arg.fetch_log
        /\ IF obs.raised THEN fares = obs.arg.fares /\ obs.out > 0
           ELSE fares = obs.arg.fares \o obs.arg.rows

C14_Witness ==
    /\ obs.op = "save_fares"
    /\ Len(obs.arg.rows) = 2
    /\ obs.raised
    /\ obs.out = 2
    /\ Len(obs.arg.fares) > 0
    /\ fares = obs.arg.fares

BothTables == {"fares", "fetch_log"}

\* C15: init_db on a store that already has its tables, with or without
\* rows, raises no error about them (only an unavailable store makes it
\* raise), leaves exactly the two tables, and leaves every row of fares and
\* fetch_log as it was.
C15_InitDbIdempotent ==
    obs.op = "init_db" =>
        /\ obs.out # "exists"
        /\ obs.raised => (obs.out = "store" /\ schema = obs.arg.schema)
        /\ ~obs.raised => schema = BothTables
        /\ fares = obs.arg.fares
        /\ fetch_log = obs.arg.fetch_log

C15_Witness ==
    /\ obs.op = "init_db"
    /\ obs.arg.schema = BothTables
    /\ Len(obs.arg.fares) > 0
    /\ Len(obs.arg.fetch_log) > 0
    /\ ~obs.raised
    /\ schema = BothTables

RECURSIVE SumCounts(_)
\* the sum of the counts of the success records of a log
SumCounts(log) ==
    IF log = <<>> THEN 0
    ELSE (IF Head(log).status = "success" THEN Head(log).n_records ELSE 0) + SumCounts(Tail(log))

\* C16 (as claimed): between pairs and at the end of a run, total_saved is
\* the number of rows the run has appended to fares (the store was empty
\* when the run began), which is the sum of the counts of its success
\* records.
C16_TotalSavedIsRowsAppended ==
    pc \in {"loop", "done"} =>
        /\ total_saved = Len(fares)
        /\ Len(fares) = SumCounts(fetch_log)

\* the i-th pair of the Cartesian product, route list order first
PairAt(i) ==
    [route      |-> LET r == Routes[((i - 1) \div Len(Horizons)) + 1] IN <<r.origin, r.destination>>,
     days_ahead |-> Horizons[((i - 1) % Len(Horizons)) + 1]]

RowsOfPair(row) ==
    {j \in DOMAIN fares : /\ <<fares[j].origin, fares[j].destination>> = row.route
                          /\ fares[j].days_ahead = row.days_ahead}

\* C18 (as claimed): every success record in fetch_log has a count of at
\* least 1, and that count is the number of rows stored in fares for its
\* pair.
C18_SuccessCountIsRowsSaved ==
    \A i \in DOMAIN fetch_log :
        fetch_log[i].status = "success" =>
            /\ fetch_log[i].n_records >= 1
            /\ fetch_log[i].n_records = Cardinality(RowsOfPair(fetch_log[i]))

\* C19: a mode's call never yields more than MAX_RESULTS records, every
\* record is built from one of the first MAX_RESULTS raw offers, an offer
\* beyond that position never becomes a record or a stored row, and a
\* result whose first MAX_RESULTS offers are all unusable yields nothing
\* and is not saved.
C19_OnlyFirstMaxResults ==
    /\ \A j \in DOMAIN fares : fares[j].airline # "LATE"
    /\ \A i \in DOMAIN fetch_log : fetch_log[i].n_records <= MAX_RESULTS
    /\ Called =>
          /\ Len(records) <= MAX_RESULTS
          /\ \A j \in DOMAIN records :
                /\ records[j].airline # "LATE"
                /\ \E i \in DOMAIN Considered : BuiltFrom(records[j], Considered[i])
          /\ (\A i \in DOMAIN Considered : ~Usable(Considered[i])) =>
                /\ records = <<>>
                /\ pc \notin {"save", "log"}
                /\ hist.outcomes[Len(hist.outcomes)] # "offers"

C19_Witness ==
    /\ Called
    /\ obs.arg = Repeat(Flight(P_TRY), MAX_RESULTS) \o <<LateFlight(P_USD)>>
    /\ LoggedSuccess
    /\ LastLog.n_records = MAX_RESULTS
    /\ Len(RowsOfCall) = MAX_RESULTS

RECURSIVE InOrder(_, _)
\* recs were built, in this order, from offers of raw taken left to right
InOrder(recs, raw) ==
    IF recs = <<>> THEN TRUE
    ELSE IF raw = <<>> THEN FALSE
    ELSE IF BuiltFrom(Head(recs), Head(raw)) THEN InOrder(Tail(recs), Tail(raw))
    ELSE InOrder(recs, Tail(raw))

\* the fields every record of the current fetch_fares call carries
OfThisCall(rec) ==
    /\ rec.fetched_at = clock
    /\ rec.days_ahead = DaysAhead
    /\ rec.origin = Route.origin
    /\ rec.destination = Route.destination
    /\ rec.departure_date = Today + DaysAhead

\* C20: every record built and every row stored by one fetch_fares call,
\* by whichever mode, carries the call's one timestamp and its horizon,
\* origin, destination and departure date; the records of a mode are in the
\* order of the raw offers they were built from, and are stored in that
\* order.
C20_SameCallFieldsAndOrder ==
    (InFetchFares \/ pc = "sleep") =>
        /\ \A j \in DOMAIN records : OfThisCall(records[j])
        /\ \A j \in DOMAIN RowsOfCall : OfThisCall(RowsOfCall[j])
        /\ Called => InOrder(records, Considered)
        /\ (pc = "log" \/ LoggedSuccess) =>
              SubSeq(fares, Len(fares) - Len(records) + 1, Len(fares)) = records

C20_Witness ==
    /\ Called
    /\ obs.arg = <<Flight(P_TRY), Flight(P_USD)>>
    /\ hist.calls = <<"local", "fallback">>
    /\ LoggedSuccess
    /\ Len(RowsOfCall) = 3
    /\ RowsOfCall[2].raw_offer.price_raw = P_TRY
    /\ RowsOfCall[3].raw_offer.price_raw = P_USD

\* s is an initial part of t
IsPrefix(s, t) == Len(s) <= Len(t) /\ SubSeq(t, 1, Len(s)) = s

\* C21: every step of every operation leaves the rows a table had where
\* they were and as they were: each table after the step extends the table
\* before it.
C21_AppendOnly ==
    [][IsPrefix(fares, fares') /\ IsPrefix(fetch_log, fetch_log')]_vars

C21_Witness ==
    /\ pc = "sleep"
    /\ hist.fares_before > 0
    /\ hist.log_before > 0
    /\ Len(fares) > hist.fares_before
    /\ Len(fetch_log) > hist.log_before
    /\ storeFailures > 0

\* a Python float that compares >= 0 (NaN does not)
NonNegative(x) == x.k = "num" /\ x.v >= 0
HorizonSet == {SEARCH_HORIZONS[i] : i \in DOMAIN SEARCH_HORIZONS}

\* C22 (as claimed): every row of fares has non-negative price_total and
\* price_base and a days_ahead that is one of SEARCH_HORIZONS.
C22_PricesNonNegative ==
    \A j \in DOMAIN fares :
        /\ NonNegative(fares[j].price_total)
        /\ NonNegative(fares[j].price_base)
        /\ fares[j].days_ahead \in HorizonSet

\* C23 (as claimed): the currency of every row of fares is the code
\* parse_currency reads from the row's raw price string.
C23_CurrencyIsQuoteCode ==
    \A j \in DOMAIN fares : fares[j].currency = parse_currency(fares[j].raw_offer.price_raw)

\* C23 (amended): the currency of every record built and of every row of
\* fares is "USD", the currency its price fields are converted to, whatever
\* code its raw price string carries; that string is kept in raw_offer.
C23_CurrencyIsUsd ==
    /\ \A j \in DOMAIN records : records[j].currency = "USD"
    /\ \A j \in DOMAIN fares :
          /\ fares[j].currency = "USD"
          /\ fares[j].price_total = parse_price_usd(fares[j].raw_offer.price_raw, fx_rates).usd
          /\ fares[j].price_base = fares[j].price_total

C23_Witness ==
    /\ LoggedSuccess
    /\ \E j \in DOMAIN fares :
          /\ fares[j].raw_offer.price_raw = P_TRY
          /\ parse_currency(fares[j].raw_offer.price_raw) = "TRY"
          /\ fares[j].currency = "USD"
          /\ fares[j].price_total = Num(274)

\* C24: while the store is available a run is never cut short and
\* eventually completes with a record for every pair, and within one
\* fetch_fares call every mode is called at most once, so a pair sees at
\* most Len(FETCH_MODES) = 2 retrieval calls.
C24_RunCompletes ==
    /\ <>(pc = "done" /\ Len(fetch_log) = NPairs)
    /\ [](/\ pc # "aborted"
          /\ Len(hist.calls) <= Len(FETCH_MODES)
          /\ \A i, j \in DOMAIN hist.calls : i # j => hist.calls[i] # hist.calls[j])

C24_Witness ==
    /\ pc = "done"
    /\ Len(fetch_log) = NPairs
    /\ storeFailures = 0
    /\ \E i \in DOMAIN fetch_log : fetch_log[i].status = "error"
    /\ \E i \in DOMAIN fetch_log : fetch_log[i].message = <<"mode=", "fallback">>

\* C25: the rate map changes in one step only, the fetch_fx_rates call
\* that follows init_db and precedes the first get_flights call, and that
\* step happens once; from then on fetch_fares works with that very map:
\* it is the map in use during every call, and every stored price is the
\* conversion of its raw price under it.
C25_RatesFetchedOnce ==
    /\ [][/\ (fx_rates' # fx_rates \/ fxOut' # fxOut) =>
                /\ pc = "fx"
                /\ schema = BothTables
                /\ clock = 0
                /\ fx_rates' = fxOut'.rates
          /\ pc' = "fx" => pc = "init_db"]_vars
    /\ [](InFetchFares => fx_rates = fxOut.rates)
    /\ [](\A j \in DOMAIN fares :
            fares[j].price_total = parse_price_usd(fares[j].raw_offer.price_raw, fxOut.rates).usd)

C25_Witness ==
    /\ pc = "log"
    /\ PairsDone = Len(Horizons) - 1
    /\ Len(fares) = Len(Horizons)
    /\ fxIn = Unreachable
    /\ fx_rates = DictUpdate(InitialRates, FALLBACK_RATES)
    /\ \A j \in DOMAIN fares : fares[j].price_total = Num(274)

\* C26 (as claimed): when a fetch_fares call has ended, by returning or by
\* raising, the rows it appended to fares are the records of one mode, and
\* it appended rows only if it wrote the success record that counts them.
C26_PersistedOnceAndRecorded ==
    (pc \in {"sleep", "aborted"} /\ Len(fares) > hist.fares_before) =>
        /\ LoggedSuccess
        /\ Len(RowsOfCall) = LastLog.n_records
        /\ RowsOfCall = records

\* C27: when fetch_all ends, by returning or by raising, job returns to
\* the scheduler loop without raising, and from the loop the next run can
\* be started; the scheduler is never stopped by a run.
C27_SchedulerSurvivesAbort ==
    /\ [][(pc = "aborted" \/ pc = "done") => (pc' = "scheduled" /\ ~obs'.raised)]_vars
    /\ [](pc # "crashed")
    /\ []((pc = "scheduled" /\ runs < MaxRuns) => ENABLED RunPending)

C27_Witness ==
    /\ obs.op = "job"
    /\ obs.arg = "aborted"
    /\ storeFailures > 0
    /\ runs = 2
    /\ pc = "done"
    /\ Len(fetch_log) >= NPairs

=============================================================================
